---- MODULE Spec2Model ----
(***************************************************************************)
(* Model of the simulation-cell geometry engine of PQAnalysis:             *)
(*   cpp/include/cell/cell.hpp   (class Cell, flat float storage)          *)
(*   cell.cpp, single precision  (src/unnamed/part_002, lines 1-214)       *)
(*   cpp/src/cell/cell.cpp       (double precision, vector of vectors)     *)
(*   cpp/src/cell/cell_py.cpp    (the pybind11 binding of class Cell)      *)
(*                                                                         *)
(* Numbers.  The code computes in IEEE floating point.  The model computes *)
(* in exact rational arithmetic extended with the IEEE special values: a   *)
(* number is a pair <<n, d>>, d > 0 and gcd(n, d) = 1 for the rational     *)
(* n/d, and <<1,0>>, <<-1,0>>, <<0,0>> for +Inf, -Inf and NaN.  Rounding   *)
(* error and signed zero are not modelled.  Trigonometric functions are    *)
(* tables over the angles whose sine and cosine are rational (the 3-4-5    *)
(* triangle), the angle itself being held to 1/100 of a degree.            *)
(*                                                                         *)
(* Magnitudes.  TLC's integers are 32 bit wide, so the float range is      *)
(* scaled down: cbrt(FLT_MAX) is CbrtFltMax (100), FLT_MAX its cube.  The  *)
(* factors 0.99 of the code are kept exactly.                              *)
(***************************************************************************)
EXTENDS Integers, Sequences, FiniteSets, TLC

VARIABLES box_lengths, box_angles, box_matrix, op, arg, ret, nmut

vars == <<box_lengths, box_angles, box_matrix, op, arg, ret, nmut>>

(***************************************************************************)
(* Extended rational arithmetic (the float/double operators of C).         *)
(***************************************************************************)
NaN == <<0, 0>>
PInf == <<1, 0>>
NInf == <<-1, 0>>

Abs(i) == IF i < 0 THEN -i ELSE i

Sgn(i) == IF i < 0 THEN -1 ELSE IF i > 0 THEN 1 ELSE 0

RECURSIVE GCD(_, _)
GCD(a, b) == IF b = 0 THEN a ELSE GCD(b, a % b)

\* the number n/d in lowest terms; n/0 is an infinity or NaN
Q(n, d) ==
    IF d = 0 THEN <<Sgn(n), 0>>
    ELSE LET g == GCD(Abs(n), Abs(d))
             s == IF d < 0 THEN -1 ELSE 1
         IN  <<s * (n \div g), s * (d \div g)>>

I(n) == <<n, 1>>

IsNaN(x) == x = NaN

IsInf(x) == x[2] = 0 /\ x[1] # 0

IsFinite(x) == x[2] > 0

LCM(a, b) == (a \div GCD(a, b)) * b

Neg(x) == <<-x[1], x[2]>>

Add(x, y) ==
    IF IsNaN(x) \/ IsNaN(y) THEN NaN
    ELSE IF IsInf(x) THEN (IF IsInf(y) /\ y # x THEN NaN ELSE x)
    ELSE IF IsInf(y) THEN y
    ELSE LET l == LCM(x[2], y[2])
         IN  Q(x[1] * (l \div x[2]) + y[1] * (l \div y[2]), l)

Sub(x, y) == Add(x, Neg(y))

Mul(x, y) ==
    IF IsNaN(x) \/ IsNaN(y) THEN NaN
    ELSE IF IsInf(x) \/ IsInf(y)
         THEN (IF x[1] = 0 \/ y[1] = 0 THEN NaN ELSE <<Sgn(x[1]) * Sgn(y[1]), 0>>)
    ELSE LET g1 == GCD(Abs(x[1]), y[2])
             g2 == GCD(Abs(y[1]), x[2])
         IN  Q((x[1] \div g1) * (y[1] \div g2), (x[2] \div g2) * (y[2] \div g1))

\* x / y: a finite non-zero number over zero is an infinity, 0/0 and
\* Inf/Inf are NaN
Div(x, y) ==
    IF IsNaN(x) \/ IsNaN(y) THEN NaN
    ELSE IF IsInf(y) THEN (IF IsInf(x) THEN NaN ELSE I(0))
    ELSE IF y[1] = 0 THEN <<Sgn(x[1]), 0>>
    ELSE IF IsInf(x) THEN <<Sgn(x[1]) * Sgn(y[1]), 0>>
    ELSE Mul(x, Q(y[2], y[1]))

\* x < y; every comparison with NaN is false
Lt(x, y) ==
    IF IsNaN(x) \/ IsNaN(y) THEN FALSE
    ELSE IF IsInf(x) \/ IsInf(y)
         THEN (IF IsInf(x) /\ IsInf(y) THEN x[1] < y[1]
               ELSE IF IsInf(x) THEN x[1] < 0
               ELSE y[1] > 0)
    ELSE LET l == LCM(x[2], y[2])
         IN  x[1] * (l \div x[2]) < y[1] * (l \div y[2])

Gt(x, y) == Lt(y, x)

Le(x, y) == ~IsNaN(x) /\ ~IsNaN(y) /\ ~Lt(y, x)

\* C's == on floating point: NaN is equal to nothing
Eq(x, y) == ~IsNaN(x) /\ ~IsNaN(y) /\ x = y

fabs(x) == <<Abs(x[1]), x[2]>>

\* C's fmax: when one argument is NaN the other is returned
fmax(x, y) ==
    IF IsNaN(x) THEN y
    ELSE IF IsNaN(y) THEN x
    ELSE IF Lt(x, y) THEN y ELSE x

\* rint in place of round: halfway cases go to the even neighbour
round_half_to_even(x) ==
    IF x[2] <= 0 THEN x
    ELSE LET f == (2 * x[1] + x[2]) \div (2 * x[2])
         IN  IF (2 * x[1] + x[2]) % (2 * x[2]) = 0 /\ f % 2 # 0
             THEN <<f - 1, 1>>
             ELSE <<f, 1>>

\* C's round: to the nearest integer, halfway cases away from zero
round(x) ==
    IF ~IsFinite(x) THEN x
    ELSE I(Sgn(x[1]) * ((2 * Abs(x[1]) + x[2]) \div (2 * x[2])))

IsSquare(n) == \E r \in 0..n : r * r = n

ISqrt(n) == CHOOSE r \in 0..n : r * r = n

\* sqrt of a number whose root is rational; NaN for a negative argument
sqrt(x) ==
    IF IsNaN(x) THEN NaN
    ELSE IF IsInf(x) THEN (IF x[1] > 0 THEN PInf ELSE NaN)
    ELSE IF x[1] < 0 THEN NaN
    ELSE <<ISqrt(x[1]), ISqrt(x[2])>>

(***************************************************************************)
(* Trigonometry in degrees.  The code evaluates cos(x / 180 * M_PI) and    *)
(* acos(y) * 180 / M_PI; the model tabulates both compositions.            *)
(***************************************************************************)
Deg90 == I(90)
Deg53 == <<5313, 100>>
Deg127 == <<12687, 100>>
Deg37 == <<3687, 100>>
Deg143 == <<14313, 100>>

\* <<angle in degrees, cosine, sine>>
TrigTable ==
    { <<I(0), I(1), I(0)>>,
      <<Deg37, <<4, 5>>, <<3, 5>>>>,
      <<Deg53, <<3, 5>>, <<4, 5>>>>,
      <<Deg90, I(0), I(1)>>,
      <<Deg127, <<-3, 5>>, <<4, 5>>>>,
      <<Deg143, <<-4, 5>>, <<3, 5>>>>,
      <<I(180), I(-1), I(0)>> }

CosDeg(x) ==
    IF ~IsFinite(x) THEN NaN
    ELSE (CHOOSE t \in TrigTable : t[1] = x)[2]

SinDeg(x) ==
    IF ~IsFinite(x) THEN NaN
    ELSE (CHOOSE t \in TrigTable : t[1] = x)[3]

\* acos(y) * 180 / M_PI: NaN outside [-1, 1]
AcosDeg(y) ==
    IF IsNaN(y) \/ Lt(I(1), y) \/ Lt(y, I(-1)) THEN NaN
    ELSE (CHOOSE t \in TrigTable : t[2] = y)[1]

(***************************************************************************)
(* class Cell: a cell is a record of the three private members.  The box   *)
(* matrix is the flat row-major vector of nine numbers, entry (i, j) at    *)
(* index i * 3 + j.                                                        *)
(***************************************************************************)
\* _box_matrix[(i * 3) + j], i and j counted from 0
At(m, i, j) == m[(i * 3) + j + 1]

_setup_box_matrix(lengths, angles) ==
    LET alpha == angles[1]
        beta == angles[2]
        gamma == angles[3]
        cos_alpha == CosDeg(alpha)
        cos_beta == CosDeg(beta)
        cos_gamma == CosDeg(gamma)
        sin_gamma == SinDeg(gamma)
        sin_beta == SinDeg(beta)
        a == lengths[1]
        b == lengths[2]
        c == lengths[3]
        t == Sub(cos_alpha, Mul(cos_beta, cos_gamma))
    IN  << a, Mul(b, cos_gamma), Mul(c, cos_beta),
           I(0), Mul(b, sin_gamma), Div(Mul(c, t), sin_gamma),
           I(0), I(0),
           Mul(c, sqrt(Sub(Mul(sin_beta, sin_beta),
                           Div(Mul(t, t), Mul(sin_gamma, sin_gamma))))) >>

\* Cell::Cell(a, b, c, alpha, beta, gamma)
Cell(a, b, c, alpha, beta, gamma) ==
    [box_lengths |-> <<a, b, c>>,
     box_angles |-> <<alpha, beta, gamma>>,
     box_matrix |-> _setup_box_matrix(<<a, b, c>>, <<alpha, beta, gamma>>)]

Mul3(x, y, z) == Mul(Mul(x, y), z)

\* the determinant of an upper-triangular matrix only
volume_of_diagonal(m) == Mul3(At(m, 0, 0), At(m, 1, 1), At(m, 2, 2))

\* Cell::volume
volume(m) ==
    Sub(Sub(Sub(Add(Add(Mul3(At(m, 0, 0), At(m, 1, 1), At(m, 2, 2)),
                        Mul3(At(m, 0, 1), At(m, 1, 2), At(m, 2, 0))),
                    Mul3(At(m, 0, 2), At(m, 1, 0), At(m, 2, 1))),
                Mul3(At(m, 0, 2), At(m, 1, 1), At(m, 2, 0))),
            Mul3(At(m, 0, 1), At(m, 1, 0), At(m, 2, 2))),
        Mul3(At(m, 0, 0), At(m, 1, 2), At(m, 2, 1)))

\* stands for cbrt(std::numeric_limits<float>::max())
CbrtFltMax == 100

FLT_MAX == CbrtFltMax * CbrtFltMax * CbrtFltMax

VacuumThreshold ==
    Mul(Mul(Mul(Mul(I(FLT_MAX), <<99, 100>>), <<99, 100>>), <<99, 100>>), <<99, 100>>)

\* the test of the double-precision Cell: volume() == 0
is_vacuum_volume_zero(m) == Eq(volume(m), I(0))

\* Cell::is_vacuum
is_vacuum(m) == Gt(volume(m), VacuumThreshold)

\* (_box_angles[0] == 90.0 && _box_angles[1] == 90.0 && _box_angles[2] == 90.0)
is_orthorhombic(angles) ==
    Eq(angles[1], Deg90) /\ Eq(angles[2], Deg90) /\ Eq(angles[3], Deg90)

\* fast path, component j of position i:
\*   pos[i*3+j] - _box_lengths[j] * round(pos[i*3+j] / _box_lengths[j])
image_orthorhombic(c, pos, i, j) ==
    LET scaled == Div(pos[(i * 3) + j + 1], c.box_lengths[j + 1])
    IN  Sub(pos[(i * 3) + j + 1], Mul(c.box_lengths[j + 1], round(scaled)))

\* general path: fractional[i*3+j] is the sum over k of
\* pos[i*3+k] * _box_matrix[k*3+j], accumulated from 0 in the order k = 0, 1, 2
fractional(c, pos, i, j) ==
    Add(Add(Add(I(0), Mul(pos[(i * 3) + 1], At(c.box_matrix, 0, j))),
            Mul(pos[(i * 3) + 2], At(c.box_matrix, 1, j))),
        Mul(pos[(i * 3) + 3], At(c.box_matrix, 2, j)))

\* fractional[i*3+j] -= round(fractional[i*3+j])
wrapped(c, pos, i, j) ==
    LET f == fractional(c, pos, i, j)
    IN  Sub(f, round(f))

\* image[i*3+j] is the sum over k of fractional[i*3+k] * _box_matrix[j*3+k]
image_general(c, pos, i, j) ==
    Add(Add(Add(I(0), Mul(wrapped(c, pos, i, 0), At(c.box_matrix, j, 0))),
            Mul(wrapped(c, pos, i, 1), At(c.box_matrix, j, 1))),
        Mul(wrapped(c, pos, i, 2), At(c.box_matrix, j, 2)))

\* image with the path chosen by the matrix (diagonal or not) in place of
\* the angles
image_by_matrix(c, pos) ==
    [ n \in 1..Len(pos) |->
        LET i == (n - 1) \div 3
            j == (n - 1) % 3
        IN  IF i >= Len(pos) \div 3 THEN I(0)
            ELSE IF \A r \in 0..2, k \in 0..2 : r # k => At(c.box_matrix, r, k) = I(0)
                 THEN image_orthorhombic(c, pos, i, j)
                 ELSE image_general(c, pos, i, j) ]

\* image with every position computed from the entries of the first one
image_of_first_position(c, pos) ==
    [ n \in 1..Len(pos) |->
        LET j == (n - 1) % 3
        IN  IF (n - 1) \div 3 >= Len(pos) \div 3 THEN I(0)
            ELSE IF is_orthorhombic(c.box_angles)
                 THEN image_orthorhombic(c, pos, 0, j)
                 ELSE image_general(c, pos, 0, j) ]

\* Cell::image on the flat vector pos: the entries of the pos.size() / 3
\* whole positions are computed, any trailing entries stay 0.0
image(c, pos) ==
    [ n \in 1..Len(pos) |->
        LET i == (n - 1) \div 3
            j == (n - 1) % 3
        IN  IF i >= Len(pos) \div 3 THEN I(0)
            ELSE IF is_orthorhombic(c.box_angles)
                 THEN image_orthorhombic(c, pos, i, j)
                 ELSE image_general(c, pos, i, j) ]

\* sqrt of the squared Euclidean norm of column j
column_length(m, j) ==
    sqrt(Add(Add(Mul(At(m, 0, j), At(m, 0, j)), Mul(At(m, 1, j), At(m, 1, j))),
             Mul(At(m, 2, j), At(m, 2, j))))

column_dot(m, j, k) ==
    Add(Add(Mul(At(m, 0, j), At(m, 0, k)), Mul(At(m, 1, j), At(m, 1, k))),
        Mul(At(m, 2, j), At(m, 2, k)))

\* init_from_box_matrix with alpha and gamma taken from the wrong column pairs
init_from_box_matrix_swapped(m) ==
    LET lengths == <<column_length(m, 0), column_length(m, 1), column_length(m, 2)>>
    IN  [box_lengths |-> lengths,
         box_angles |->
            << AcosDeg(Div(column_dot(m, 0, 1), Mul(lengths[1], lengths[2]))),
               AcosDeg(Div(column_dot(m, 0, 2), Mul(lengths[1], lengths[3]))),
               AcosDeg(Div(column_dot(m, 1, 2), Mul(lengths[2], lengths[3]))) >>,
         box_matrix |-> m]

\* Cell::init_from_box_matrix: the new members of the cell
init_from_box_matrix(m) ==
    LET lengths == <<column_length(m, 0), column_length(m, 1), column_length(m, 2)>>
    IN  [box_lengths |-> lengths,
         box_angles |->
            << AcosDeg(Div(column_dot(m, 1, 2), Mul(lengths[2], lengths[3]))),
               AcosDeg(Div(column_dot(m, 0, 2), Mul(lengths[1], lengths[3]))),
               AcosDeg(Div(column_dot(m, 0, 1), Mul(lengths[1], lengths[2]))) >>,
         box_matrix |-> m]

\* fabs(a - b) > fmax(rtol * fmax(fabs(a), fabs(b)), atol)
differs(a, b, rtol, atol) ==
    Gt(fabs(Sub(a, b)), fmax(Mul(rtol, fmax(fabs(a), fabs(b))), atol))

\* isclose without the test of is_vacuum
isclose_no_vacuum_test(c, other, rtol, atol) ==
    \A i \in 1..3 :
        /\ ~differs(c.box_angles[i], other.box_angles[i], rtol, atol)
        /\ ~differs(c.box_lengths[i], other.box_lengths[i], rtol, atol)

\* isclose that asks only the cell itself whether it is vacuum
isclose_own_vacuum_test(c, other, rtol, atol) ==
    IF is_vacuum(c.box_matrix) THEN TRUE
    ELSE \A i \in 1..3 :
            /\ ~differs(c.box_angles[i], other.box_angles[i], rtol, atol)
            /\ ~differs(c.box_lengths[i], other.box_lengths[i], rtol, atol)

\* Cell::isclose
isclose(c, other, rtol, atol) ==
    IF is_vacuum(c.box_matrix) /\ is_vacuum(other.box_matrix) THEN TRUE
    ELSE \A i \in 1..3 :
            /\ ~differs(c.box_angles[i], other.box_angles[i], rtol, atol)
            /\ ~differs(c.box_lengths[i], other.box_lengths[i], rtol, atol)

\* float values[2] = {-0.5, 0.5}
values == << <<-1, 2>>, <<1, 2>> >>

\* int idx = i * (4 * 3) + j * (2 * 3) + k
edge_idx(i, j, k) == (i * (4 * 3)) + (j * (2 * 3)) + k

\* _box_matrix[0*3+col] * x + _box_matrix[1*3+col] * y + _box_matrix[2*3+col] * z
edge_value(m, i, j, k, col) ==
    Add(Add(Mul(At(m, 0, col), values[i + 1]), Mul(At(m, 1, col), values[j + 1])),
        Mul(At(m, 2, col), values[k + 1]))

\* the writes edges[(idx * 3) + col] = ... of the three nested loops, as
\* <<index written, value>>
edge_writes(m) ==
    { <<(edge_idx(i, j, k) * 3) + col, edge_value(m, i, j, k, col)>> :
        i \in 0..1, j \in 0..1, k \in 0..1, col \in 0..2 }

\* vector<float> edges(8 * 3, 0.0)
EdgesSize == 8 * 3

\* the writes that fall behind the end of edges
edge_writes_out_of_bounds(m) == { w \in edge_writes(m) : w[1] >= EdgesSize }

\* Cell::bounding_edges: the vector edges once the loops are done, provided
\* the writes behind its end did no harm.  No index is written twice.
bounding_edges(m) ==
    [ n \in 1..EdgesSize |->
        IF \E w \in edge_writes(m) : w[1] = n - 1
        THEN (CHOOSE w \in edge_writes(m) : w[1] = n - 1)[2]
        ELSE I(0) ]

(***************************************************************************)
(* The pybind11 binding (cell_py.cpp).  A numpy array is its number of     *)
(* dimensions, its shape and its elements in row-major order.              *)
(***************************************************************************)
Zeros(n) == [k \in 1..n |-> I(0)]

Array2(rows, cols, data) == [ndim |-> 2, shape |-> <<rows, cols>>, data |-> data]

Array1(data) == [ndim |-> 1, shape |-> <<Len(data)>>, data |-> data]

\* the checks of the init_from_box_matrix lambda and of the box_matrix
\* setter: "" when the array passes, else the message of the runtime_error
matrix_shape_error(a) ==
    IF a.ndim # 2 THEN "box_matrix must be a 2D array"
    ELSE IF a.shape[1] # 3 \/ a.shape[2] # 3 THEN "box_matrix must be a 3x3 array"
    ELSE ""

\* std::vector<float> box_matrix_vec(info.shape[0] * info.shape[1]): the
\* vector is value-initialised and the elements of the array are not copied
box_matrix_vec(a) == Zeros(a.shape[1] * a.shape[2])

\* the check of the number of dimensions without the check of the length
vector_shape_error_ndim_only(a, name) ==
    IF a.ndim # 1 THEN name \o " must be a 1D array" ELSE ""

\* the checks of the box_lengths and box_angles setters
vector_shape_error(a, name) ==
    IF a.ndim # 1 THEN name \o " must be a 1D array"
    ELSE IF a.shape[1] # 3 THEN name \o " must have 3 elements"
    ELSE ""

\* std::vector<float> box_lengths_vec(info.shape[0]), box_angles_vec likewise
box_vec(a) == Zeros(a.shape[1])

(***************************************************************************)
(* Inputs explored.                                                        *)
(***************************************************************************)
\* the longest batch of positions handed to image
MaxBatch == 2

\* the number of mutating calls made on one cell
MaxMutations == 1

\* py::arg("x") = cbrt(std::numeric_limits<float>::max()) * 0.99
DefaultLength == Mul(I(CbrtFltMax), <<99, 100>>)

\* constructor arguments <<x, y, z, alpha, beta, gamma>>; the first is the
\* binding's default, Cell()
CellInputs ==
    { <<DefaultLength, DefaultLength, DefaultLength, Deg90, Deg90, Deg90>>,
      <<DefaultLength, I(100), I(100), Deg90, Deg90, Deg90>>,
      <<I(10), I(10), I(10), Deg90, Deg90, Deg90>>,
      <<I(2), I(3), I(4), Deg90, Deg90, Deg90>>,
      <<I(1), I(1), I(1), Deg90, Deg90, Deg90>>,
      <<I(1), I(5), I(1), Deg90, Deg90, Deg53>>,
      <<I(1), I(1), I(5), Deg53, Deg90, Deg90>>,
      <<I(1), I(1), I(5), Deg90, Deg127, Deg90>>,
      <<I(1), I(5), I(5), Deg90, Deg53, Deg37>>,
      <<I(1), I(1), I(1), Deg53, Deg53, Deg127>>,
      <<DefaultLength, DefaultLength, I(10), Deg90, Deg90, Deg90>>,
      <<I(0), I(0), I(0), Deg90, Deg90, Deg90>>,
      <<I(1), I(1), I(1), Deg90, Deg90, I(0)>> }

CellOf(i) == Cell(i[1], i[2], i[3], i[4], i[5], i[6])

SetLengths == {I(10), DefaultLength}

SetAngles == {Deg90, Deg53}

Positions ==
    { <<I(12), I(-6), I(5)>>,
      <<I(-5), I(0), I(0)>>,
      <<<<1, 4>>, I(0), I(0)>>,
      <<I(60), I(0), I(0)>> }

RECURSIVE Flatten(_)
Flatten(b) == IF b = <<>> THEN <<>> ELSE Head(b) \o Flatten(Tail(b))

\* pos.attr("flatten")() of an N x 3 array, N <= MaxBatch
Batches == { Flatten(b) : b \in UNION { [1..n -> Positions] : n \in 0..MaxBatch } }

Matrices ==
    { _setup_box_matrix(<<i[1], i[2], i[3]>>, <<i[4], i[5], i[6]>>) : i \in CellInputs }
    \cup { <<I(0), I(1), I(0), I(1), I(0), I(0), I(0), I(0), I(1)>> }

MatrixArrays ==
    { Array2(3, 3, <<I(2), I(0), I(0), I(0), I(3), I(0), I(0), I(0), I(4)>>),
      Array2(3, 3, <<I(1), I(3), I(0), I(0), I(4), I(0), I(0), I(0), I(1)>>),
      Array2(2, 3, Zeros(6)), Array1(Zeros(9)) }

VectorArrays ==
    { Array1(<<I(10), I(10), I(10)>>), Array1(<<Deg90, Deg90, Deg53>>),
      Array1(<<DefaultLength, DefaultLength, DefaultLength>>),
      Array1(<<I(1), I(1)>>), Array2(1, 3, <<I(1), I(1), I(1)>>) }

Tolerances == {I(0), <<1, 10>>}

\* py::arg("rtol") = 1e-9, below the relative spacing of two floats; here
\* 1/1000, below the relative spacing of the numbers explored
DefaultRtol == <<1, 1000>>

\* py::arg("atol") = 0.0
DefaultAtol == I(0)

OtherCells == { CellOf(i) : i \in CellInputs }

(***************************************************************************)
(* The state machine: one Cell object and the calls made on it.  op, arg   *)
(* and ret are the last call, its argument and what it returned.           *)
(***************************************************************************)
Self == [box_lengths |-> box_lengths, box_angles |-> box_angles, box_matrix |-> box_matrix]

None == "None"

Init ==
    \E i \in CellInputs :
        /\ box_lengths = CellOf(i).box_lengths
        /\ box_angles = CellOf(i).box_angles
        /\ box_matrix = CellOf(i).box_matrix
        /\ op = "Cell"
        /\ arg = i
        /\ ret = None
        /\ nmut = 0

Called(name, a, r) == op' = name /\ arg' = a /\ ret' = r

ErrorMessages ==
    { "box_matrix must be a 2D array", "box_matrix must be a 3x3 array",
      "box_lengths must be a 1D array", "box_lengths must have 3 elements",
      "box_angles must be a 1D array", "box_angles must have 3 elements" }

\* A behaviour is the life of one cell up to the first call that leaves the
\* cell as it is (image, isclose, a getter, a call that throws): such a call assigns
\* no member, so the calls after it reach no cell that is not reached
\* without it.
ReadOnly ==
    { "image", "isclose", "__eq__", "volume", "is_vacuum", "bounding_edges",
      "py_get_box_matrix", "py_get_box_lengths", "py_get_box_angles" }

\* what a call leaves behind when the process does not survive it
Aborted == <<"Aborted">>

Open == op \notin ReadOnly /\ ret \notin ErrorMessages

Mutation == Open /\ nmut < MaxMutations /\ nmut' = nmut + 1

\* a set_x that also rebuilds the matrix from the new lengths
set_x_rebuilding(x) ==
    /\ Mutation
    /\ box_lengths' = [box_lengths EXCEPT ![1] = x]
    /\ box_angles' = box_angles
    /\ box_matrix' = _setup_box_matrix([box_lengths EXCEPT ![1] = x], box_angles)
    /\ Called("set_x", x, None)

set_x(x) ==
    /\ Mutation
    /\ box_lengths' = [box_lengths EXCEPT ![1] = x]
    /\ UNCHANGED <<box_angles, box_matrix>>
    /\ Called("set_x", x, None)

set_y(y) ==
    /\ Mutation
    /\ box_lengths' = [box_lengths EXCEPT ![2] = y]
    /\ UNCHANGED <<box_angles, box_matrix>>
    /\ Called("set_y", y, None)

set_z(z) ==
    /\ Mutation
    /\ box_lengths' = [box_lengths EXCEPT ![3] = z]
    /\ UNCHANGED <<box_angles, box_matrix>>
    /\ Called("set_z", z, None)

set_alpha(alpha) ==
    /\ Mutation
    /\ box_angles' = [box_angles EXCEPT ![1] = alpha]
    /\ UNCHANGED <<box_lengths, box_matrix>>
    /\ Called("set_alpha", alpha, None)

set_beta(beta) ==
    /\ Mutation
    /\ box_angles' = [box_angles EXCEPT ![2] = beta]
    /\ UNCHANGED <<box_lengths, box_matrix>>
    /\ Called("set_beta", beta, None)

set_gamma(gamma) ==
    /\ Mutation
    /\ box_angles' = [box_angles EXCEPT ![3] = gamma]
    /\ UNCHANGED <<box_lengths, box_matrix>>
    /\ Called("set_gamma", gamma, None)

Install(c) ==
    /\ box_lengths' = c.box_lengths
    /\ box_angles' = c.box_angles
    /\ box_matrix' = c.box_matrix

\* a C++ caller: cell.init_from_box_matrix(m)
cpp_init_from_box_matrix(m) ==
    /\ Mutation
    /\ Install(init_from_box_matrix(m))
    /\ Called("init_from_box_matrix", m, None)

\* Python: cell.init_from_box_matrix(a)
py_init_from_box_matrix(a) ==
    IF matrix_shape_error(a) # ""
    THEN /\ Open
         /\ UNCHANGED <<box_lengths, box_angles, box_matrix, nmut>>
         /\ Called("py_init_from_box_matrix", a, matrix_shape_error(a))
    ELSE /\ Mutation
         /\ Install(init_from_box_matrix(box_matrix_vec(a)))
         /\ Called("py_init_from_box_matrix", a, None)

\* Python: cell.box_matrix = a
py_set_box_matrix(a) ==
    IF matrix_shape_error(a) # ""
    THEN /\ Open
         /\ UNCHANGED <<box_lengths, box_angles, box_matrix, nmut>>
         /\ Called("py_set_box_matrix", a, matrix_shape_error(a))
    ELSE /\ Mutation
         /\ box_matrix' = box_matrix_vec(a)
         /\ UNCHANGED <<box_lengths, box_angles>>
         /\ Called("py_set_box_matrix", a, None)

\* Python: cell.box_lengths = a
py_set_box_lengths(a) ==
    IF vector_shape_error(a, "box_lengths") # ""
    THEN /\ Open
         /\ UNCHANGED <<box_lengths, box_angles, box_matrix, nmut>>
         /\ Called("py_set_box_lengths", a, vector_shape_error(a, "box_lengths"))
    ELSE /\ Mutation
         /\ box_lengths' = box_vec(a)
         /\ UNCHANGED <<box_angles, box_matrix>>
         /\ Called("py_set_box_lengths", a, None)

\* Python: cell.box_angles = a
py_set_box_angles(a) ==
    IF vector_shape_error(a, "box_angles") # ""
    THEN /\ Open
         /\ UNCHANGED <<box_lengths, box_angles, box_matrix, nmut>>
         /\ Called("py_set_box_angles", a, vector_shape_error(a, "box_angles"))
    ELSE /\ Mutation
         /\ box_angles' = box_vec(a)
         /\ UNCHANGED <<box_lengths, box_matrix>>
         /\ Called("py_set_box_angles", a, None)

\* Python: cell.image(pos); the binding flattens pos, calls Cell::image and
\* gives the result the shape of pos
py_image(pos) ==
    /\ Open
    /\ UNCHANGED <<box_lengths, box_angles, box_matrix, nmut>>
    /\ Called("image", pos, image(Self, pos))

\* Python: cell.isclose(other, rtol, atol)
py_isclose(other, rtol, atol) ==
    /\ Open
    /\ UNCHANGED <<box_lengths, box_angles, box_matrix, nmut>>
    /\ Called("isclose", <<other, rtol, atol>>, isclose(Self, other, rtol, atol))

\* Python: a == other, the lambda a.isclose(b) with the default tolerances
py_eq(other) ==
    /\ Open
    /\ UNCHANGED <<box_lengths, box_angles, box_matrix, nmut>>
    /\ Called("__eq__", other, isclose(Self, other, DefaultRtol, DefaultAtol))

\* Python: cell.volume()
py_volume ==
    /\ Open
    /\ UNCHANGED <<box_lengths, box_angles, box_matrix, nmut>>
    /\ Called("volume", <<>>, volume(box_matrix))

\* Python: cell.is_vacuum()
py_is_vacuum ==
    /\ Open
    /\ UNCHANGED <<box_lengths, box_angles, box_matrix, nmut>>
    /\ Called("is_vacuum", <<>>, is_vacuum(box_matrix))

\* Python: cell.bounding_edges.  Cell::bounding_edges writes behind the end
\* of edges, which is undefined: the call returns the vector with the
\* writes that fell inside it, or the process is aborted.
py_bounding_edges ==
    /\ Open
    /\ UNCHANGED <<box_lengths, box_angles, box_matrix, nmut>>
    /\ \/ Called("bounding_edges", <<>>, bounding_edges(box_matrix))
       \/ /\ edge_writes_out_of_bounds(box_matrix) # {}
          /\ Called("bounding_edges", <<>>, Aborted)

\* Python: reading cell.box_matrix, the member reshaped to 3 x 3
py_get_box_matrix ==
    /\ Open
    /\ UNCHANGED <<box_lengths, box_angles, box_matrix, nmut>>
    /\ Called("py_get_box_matrix", <<>>, Array2(3, 3, box_matrix))

\* Python: reading cell.box_lengths
py_get_box_lengths ==
    /\ Open
    /\ UNCHANGED <<box_lengths, box_angles, box_matrix, nmut>>
    /\ Called("py_get_box_lengths", <<>>, Array1(box_lengths))

\* Python: reading cell.box_angles
py_get_box_angles ==
    /\ Open
    /\ UNCHANGED <<box_lengths, box_angles, box_matrix, nmut>>
    /\ Called("py_get_box_angles", <<>>, Array1(box_angles))

Next ==
    \/ \E x \in SetLengths : set_x(x)
    \/ \E y \in SetLengths : set_y(y)
    \/ \E z \in SetLengths : set_z(z)
    \/ \E alpha \in SetAngles : set_alpha(alpha)
    \/ \E beta \in SetAngles : set_beta(beta)
    \/ \E gamma \in SetAngles : set_gamma(gamma)
    \/ \E m \in Matrices \cup {box_matrix} : cpp_init_from_box_matrix(m)
    \/ \E a \in MatrixArrays : py_init_from_box_matrix(a)
    \/ \E a \in MatrixArrays : py_set_box_matrix(a)
    \/ \E a \in VectorArrays : py_set_box_lengths(a)
    \/ \E a \in VectorArrays : py_set_box_angles(a)
    \/ \E pos \in Batches : py_image(pos)
    \/ \E other \in OtherCells, rtol \in Tolerances, atol \in Tolerances :
            py_isclose(other, rtol, atol)
    \/ \E other \in OtherCells : py_eq(other)
    \/ py_volume
    \/ py_is_vacuum
    \/ py_bounding_edges
    \/ py_get_box_matrix
    \/ py_get_box_lengths
    \/ py_get_box_angles

Spec == Init /\ [][Next]_vars

(***************************************************************************)
(* The line tokenizer of the trajectory reader: process_lines_with_atoms   *)
(* in C++ (cpp/src/traj_file/process_lines.cpp) with its two bindings, and *)
(* in Cython (src/unnamed/part_006, mytest.pyx).  A line is a sequence of  *)
(* characters, a character a string of length 1.  The lines explored hold  *)
(* letters, digits, signs, the point and the blank; on these the float     *)
(* conversions of operator>> and of sscanf agree (they differ on           *)
(* exponents, inf, nan and hexadecimal literals, which are left out).      *)
(***************************************************************************)
Whitespace == {" "}

Digits == {"0", "1", "2", "3", "4", "5", "6", "7", "8", "9"}

DigitValue(c) ==
    CASE c = "0" -> 0 [] c = "1" -> 1 [] c = "2" -> 2 [] c = "3" -> 3 [] c = "4" -> 4
      [] c = "5" -> 5 [] c = "6" -> 6 [] c = "7" -> 7 [] c = "8" -> 8 [] c = "9" -> 9

\* the first position from p on that holds no whitespace, Len(s) + 1 if none
RECURSIVE skip_ws(_, _)
skip_ws(s, p) == IF p <= Len(s) /\ s[p] \in Whitespace THEN skip_ws(s, p + 1) ELSE p

\* the first position from p on that holds whitespace, Len(s) + 1 if none
RECURSIVE token_end(_, _)
token_end(s, p) == IF p <= Len(s) /\ s[p] \notin Whitespace THEN token_end(s, p + 1) ELSE p

\* the first position from p on that holds no digit
RECURSIVE digits_end(_, _)
digits_end(s, p) == IF p <= Len(s) /\ s[p] \in Digits THEN digits_end(s, p + 1) ELSE p

\* the number written by the digits s[b], .., s[e - 1]
RECURSIVE digits_value(_, _, _)
digits_value(s, b, e) ==
    IF e <= b THEN 0 ELSE (10 * digits_value(s, b, e - 1)) + DigitValue(s[e - 1])

RECURSIVE Pow10(_)
Pow10(n) == IF n = 0 THEN 1 ELSE 10 * Pow10(n - 1)

\* iss >> atom, and sscanf's %s: whitespace is skipped, then the characters
\* up to the next whitespace are taken; fails when none is left
read_string(s, p) ==
    LET b == skip_ws(s, p)
        e == token_end(s, b)
    IN  [ok |-> e > b, value |-> SubSeq(s, b, e - 1), next |-> e]

\* the value of the numeral with sign at b, integer digits s[i0..i1 - 1]
\* and fraction digits s[f0..f1 - 1]
float_value(s, b, i0, i1, f0, f1) ==
    IF s[b] = "-"
    THEN Q(-((digits_value(s, i0, i1) * Pow10(f1 - f0)) + digits_value(s, f0, f1)),
           Pow10(f1 - f0))
    ELSE Q((digits_value(s, i0, i1) * Pow10(f1 - f0)) + digits_value(s, f0, f1),
           Pow10(f1 - f0))

\* the conversion fails when the prefix holds no digit
float_result(s, b, i0, i1, f0, f1) ==
    IF i1 > i0 \/ f1 > f0
    THEN [ok |-> TRUE, value |-> float_value(s, b, i0, i1, f0, f1), next |-> f1]
    ELSE [ok |-> FALSE, value |-> I(0), next |-> b]

float_fraction(s, b, i0, i1, f0) == float_result(s, b, i0, i1, f0, digits_end(s, f0))

float_point(s, b, i0, i1) ==
    float_fraction(s, b, i0, i1, IF i1 <= Len(s) /\ s[i1] = "." THEN i1 + 1 ELSE i1)

float_sign(s, b) ==
    float_point(s, b, IF b <= Len(s) /\ s[b] \in {"+", "-"} THEN b + 1 ELSE b,
                digits_end(s, IF b <= Len(s) /\ s[b] \in {"+", "-"} THEN b + 1 ELSE b))

\* iss >> x, and sscanf's %f: whitespace is skipped, then the longest
\* prefix sign digits . digits is converted, wherever it stops
read_float(s, p) == float_sign(s, skip_ws(s, p))

\* k conversions %f in a row from position p: the values converted, fewer
\* than k when one fails
RECURSIVE read_floats(_, _, _)
after_float(s, r, k) ==
    IF r.ok THEN <<r.value>> \o read_floats(s, r.next, k - 1) ELSE <<>>

read_floats(s, p, k) == IF k = 0 THEN <<>> ELSE after_float(s, read_float(s, p), k)

line_read(a, floats) ==
    [ok |-> Len(floats) = 3,
     atom |-> a.value,
     atom_read |-> a.ok,
     xyz |-> IF Len(floats) = 3 THEN floats ELSE <<I(0), I(0), I(0)>>]

label_read(s, a) == line_read(a, IF a.ok THEN read_floats(s, a.next, 3) ELSE <<>>)

\* iss >> atom >> x >> y >> z, and sscanf(line, "%s %f %f %f", ...) == 4
parse_line(s) == label_read(s, read_string(s, 1))

\* the lines handed to the tokenizer
Lines ==
    { <<"H", " ", "1", " ", "2", " ", "3">>,
      <<" ", "O", " ", " ", "-", "1", " ", "2", ".", "5", " ", "1", "2", " ">>,
      <<"C", "l", " ", "+", "1", " ", ".", "5", " ", "0">>,
      <<"C", "a", "r", "b", "n", " ", "1", " ", "2", " ", "3">>,
      <<"C", "a", "r", "b", "o", "n", " ", "1", " ", "2", " ", "3">>,
      <<"H", " ", "1", " ", "2">>,
      <<"H", " ", "1", " ", "x", " ", "3">>,
      <<"H", " ", "1", "-", "2", " ", "3">>,
      <<>> }

\* each line with what parse_line makes of it
parsed == [s \in Lines |-> parse_line(s)]

\* what a call comes to: kind is "ok", the name of the Python exception
\* raised, "undefined" for a run that has left defined behaviour, or
\* "Aborted"; reads are the indices i of the input[i] evaluated, written the
\* largest number of bytes stored into the label buffer
Outcome(kind, atoms, xyz, message, reads, written) ==
    [kind |-> kind, atoms |-> atoms, xyz |-> xyz, message |-> message,
     reads |-> reads, written |-> written]

\* the loop of the C++ process_lines_with_atoms from index i on; cpp_line
\* is its body once input[i] has been read as r
RECURSIVE cpp_loop(_, _, _, _, _)
cpp_line(input, n_atoms, i, atoms, xyz, r) ==
    IF ~r.ok
    THEN Outcome("runtime_error", <<>>, <<>>,
                 "Failed to parse line " \o ToString(i), 0..i, 0)
    ELSE cpp_loop(input, n_atoms, i + 1,
                  [atoms EXCEPT ![i + 1] = r.atom],
                  [k \in 1..Len(xyz) |->
                      IF k \in ((i * 3) + 1)..((i * 3) + 3)
                      THEN r.xyz[k - (i * 3)] ELSE xyz[k]])

cpp_loop(input, n_atoms, i, atoms, xyz) ==
    IF i >= n_atoms THEN Outcome("ok", atoms, xyz, "", 0..(i - 1), 0)
    ELSE IF i >= Len(input)
         THEN Outcome("undefined", <<>>, <<>>, "", 0..i, 0)
         ELSE cpp_line(input, n_atoms, i, atoms, xyz, parsed[input[i + 1]])

\* process_lines_with_atoms(input, n_atoms) of process_lines.cpp
process_lines_with_atoms(input, n_atoms) ==
    IF n_atoms < 0
    THEN Outcome("length_error", <<>>, <<>>,
                 "cannot create std::vector larger than max_size()", {}, 0)
    ELSE cpp_loop(input, n_atoms, 0,
                  [k \in 1..n_atoms |-> <<>>], [k \in 1..(n_atoms * 3) |-> I(0)])

\* xyz_array.reshape({n_atoms, 3})
reshape(xyz, n_atoms) ==
    [i \in 1..n_atoms |-> <<xyz[((i - 1) * 3) + 1], xyz[((i - 1) * 3) + 2], xyz[((i - 1) * 3) + 3]>>]

\* what the binding makes of the C++ outcome r; translate maps the name of a
\* C++ exception to the Python exception raised.  The read of input[i]
\* behind the end of the vector is undefined: the process is killed, or the
\* bytes found there make a string that cannot be built or cannot be parsed
bound_outcomes(r, n_atoms, translate) ==
    IF r.kind = "ok"
    THEN {Outcome("ok", r.atoms, reshape(r.xyz, n_atoms), "", r.reads, 0)}
    ELSE IF r.kind = "undefined"
    THEN { Outcome("Aborted", <<>>, <<>>, "", r.reads, 0),
           Outcome(translate["logic_error"], <<>>, <<>>,
                   "basic_string: construction from null is not valid", r.reads, 0),
           Outcome(translate["runtime_error"], <<>>, <<>>,
                   "Failed to parse line " \o ToString(Cardinality(r.reads) - 1),
                   r.reads, 0) }
    ELSE {Outcome(translate[r.kind], <<>>, <<>>, r.message, r.reads, 0)}

\* pybind11's translation of C++ exceptions
pybind11_translate ==
    [k \in {"runtime_error", "logic_error", "length_error"} |->
        IF k = "length_error" THEN "ValueError" ELSE "RuntimeError"]

\* catch (const std::exception &e) { throw py::value_error(e.what()); }
value_error_translate ==
    [k \in {"runtime_error", "logic_error", "length_error"} |-> "ValueError"]

\* cdef char[5] atom
AtomBufferSize == 5

\* what storing more than AtomBufferSize bytes into the label buffer comes
\* to in a given build: the run goes on with the label whole, or with the
\* label cut where the bytes behind the buffer were overwritten, or the
\* process is killed
Overflows == {"whole", "cut", "killed"}

\* the loop of the Cython process_lines_with_atoms from index i on, in a
\* build where an overflow of the label buffer comes to ub; pyx_line is its
\* body once input[i] has been scanned as r.  sscanf's %s stores the label
\* and a terminating 0, Len(r.atom) + 1 bytes.
RECURSIVE pyx_loop(_, _, _, _, _, _, _)
pyx_line(input, n_atoms, i, atoms, xyz, written, ub, r) ==
    IF r.atom_read /\ Len(r.atom) + 1 > AtomBufferSize /\ ub = "killed"
    THEN Outcome("Aborted", <<>>, <<>>, "", 0..i, Len(r.atom) + 1)
    ELSE IF ~r.ok
    THEN Outcome("ValueError", <<>>, <<>>, "Could not parse line", 0..i,
                 IF r.atom_read /\ Len(r.atom) + 1 > written
                 THEN Len(r.atom) + 1 ELSE written)
    ELSE pyx_loop(input, n_atoms, i + 1,
                  [atoms EXCEPT ![i + 1] =
                      IF Len(r.atom) + 1 > AtomBufferSize /\ ub = "cut"
                      THEN SubSeq(r.atom, 1, AtomBufferSize) ELSE r.atom],
                  [xyz EXCEPT ![i + 1] = r.xyz],
                  IF Len(r.atom) + 1 > written THEN Len(r.atom) + 1 ELSE written, ub)

pyx_loop(input, n_atoms, i, atoms, xyz, written, ub) ==
    IF i >= n_atoms THEN Outcome("ok", atoms, xyz, "", 0..(i - 1), written)
    ELSE IF i >= Len(input)
         THEN Outcome("IndexError", <<>>, <<>>, "list index out of range", 0..i, written)
         ELSE pyx_line(input, n_atoms, i, atoms, xyz, written, ub, parsed[input[i + 1]])

\* process_lines_with_atoms(input, n_atoms) of the Cython module: np.zeros
\* refuses a negative dimension
pyx_process_lines_with_atoms(input, n_atoms, ub) ==
    IF n_atoms < 0
    THEN Outcome("ValueError", <<>>, <<>>, "negative dimensions are not allowed", {}, 0)
    ELSE pyx_loop(input, n_atoms, 0,
                  [k \in 1..n_atoms |-> <<>>],
                  [k \in 1..n_atoms |-> <<I(0), I(0), I(0)>>], 0, ub)

\* the longest input handed to the tokenizer, in lines
MaxLines == 2

Inputs == UNION { [1..n -> Lines] : n \in 0..MaxLines }

NAtoms == (-1)..(MaxLines + 1)

\* the tokenizer keeps nothing between calls: a behaviour is one call
Idle == op = "import"

InitLines ==
    /\ box_lengths = <<>>
    /\ box_angles = <<>>
    /\ box_matrix = <<>>
    /\ nmut = 0
    /\ op = "import"
    /\ arg = <<>>
    /\ ret = None

CellUntouched == UNCHANGED <<box_lengths, box_angles, box_matrix, nmut>>

\* Python: process_lines.process_lines_with_atoms(input, n_atoms), the
\* binding of process_lines_py.cpp
py_process_lines_with_atoms(input, n_atoms) ==
    /\ Idle
    /\ CellUntouched
    /\ \E r \in bound_outcomes(process_lines_with_atoms(input, n_atoms), n_atoms,
                               pybind11_translate) :
            Called("py_process_lines_with_atoms", <<input, n_atoms>>, r)

\* the binding with the try / catch block
py_process_lines_with_atoms_caught(input, n_atoms) ==
    /\ Idle
    /\ CellUntouched
    /\ \E r \in bound_outcomes(process_lines_with_atoms(input, n_atoms), n_atoms,
                               value_error_translate) :
            Called("py_process_lines_with_atoms_caught", <<input, n_atoms>>, r)

\* Python: the Cython process_lines_with_atoms(input, n_atoms)
pyx_call(input, n_atoms) ==
    /\ Idle
    /\ CellUntouched
    /\ \E ub \in Overflows :
            Called("pyx_process_lines_with_atoms", <<input, n_atoms>>,
                   pyx_process_lines_with_atoms(input, n_atoms, ub))

\* Python: mytest.process_lines(input, n_atoms), the same body
mytest_process_lines(input, n_atoms) ==
    /\ Idle
    /\ CellUntouched
    /\ \E ub \in Overflows :
            Called("mytest_process_lines", <<input, n_atoms>>,
                   pyx_process_lines_with_atoms(input, n_atoms, ub))

NextLines ==
    \/ \E input \in Inputs, n_atoms \in NAtoms : py_process_lines_with_atoms(input, n_atoms)
    \/ \E input \in Inputs, n_atoms \in NAtoms :
            py_process_lines_with_atoms_caught(input, n_atoms)
    \/ \E input \in Inputs, n_atoms \in NAtoms : pyx_call(input, n_atoms)
    \/ \E input \in Inputs, n_atoms \in NAtoms : mytest_process_lines(input, n_atoms)

SpecLines == InitLines /\ [][NextLines]_vars

(***************************************************************************)
(* Vocabulary of the properties.                                           *)
(***************************************************************************)
FiniteMatrix(m) == \A k \in 1..9 : IsFinite(m[k])

\* the cell is as its constructor left it
Constructed == nmut = 0

\* a box that is a parallelepiped of positive volume
NonDegenerate == FiniteMatrix(box_matrix) /\ Gt(volume(box_matrix), I(0))

\* the matrix m with column j replaced by the vector d
ReplaceColumn(m, j, d) ==
    [k \in 1..9 |-> IF (k - 1) % 3 = j THEN d[((k - 1) \div 3) + 1] ELSE m[k]]

IsInteger(x) == IsFinite(x) /\ x[2] = 1

\* d is an integer combination of the columns of the non-singular matrix m
\* (Cramer's rule gives the only coefficients there are)
LatticeVector(m, d) ==
    \A j \in 0..2 : IsInteger(Div(volume(ReplaceColumn(m, j, d)), volume(m)))

\* position i of the flat vector v
PositionAt(v, i) == <<v[(i * 3) + 1], v[(i * 3) + 2], v[(i * 3) + 3]>>

Difference(u, v) == [k \in 1..3 |-> Sub(u[k], v[k])]

LengthsOf(i) == <<i[1], i[2], i[3]>>

AnglesOf(i) == <<i[4], i[5], i[6]>>

\* constructor arguments of a real box: positive lengths, angles strictly
\* between 0 and 180 degrees that three edges can take together
ValidInputs ==
    { i \in CellInputs :
        /\ \A k \in 1..3 : Gt(i[k], I(0)) /\ IsFinite(i[k])
        /\ \A k \in 4..6 : Gt(i[k], I(0)) /\ Lt(i[k], I(180))
        /\ FiniteMatrix(_setup_box_matrix(LengthsOf(i), AnglesOf(i))) }

(***************************************************************************)
(* C1.  After construction and after any sequence of setters the stored    *)
(* basis matrix equals the matrix built from the current lengths and       *)
(* angles.  Stated for the per-field length setters, whose cells keep the  *)
(* angles they were constructed with.  Violated: set_x writes              *)
(* _box_lengths[0] alone.                                                  *)
(***************************************************************************)
C1_MatrixFollowsSetters ==
    op \in {"Cell", "set_x", "set_y", "set_z"}
        => box_matrix = _setup_box_matrix(box_lengths, box_angles)

(***************************************************************************)
(* C2.  init_from_box_matrix(M), called from Python with a 3x3 array M,    *)
(* leaves the cell with M as its matrix, the column norms of M as its      *)
(* lengths and the angles between the columns of M as its angles.          *)
(* Violated: the binding hands Cell::init_from_box_matrix a vector of nine *)
(* zeros.                                                                  *)
(***************************************************************************)
C2_InitFromBoxMatrixReplacesState ==
    (op = "py_init_from_box_matrix" /\ ret = None)
        => Self = init_from_box_matrix(arg.data)

C4_ImageIsLatticeTranslate ==
    (op = "image" /\ Constructed /\ NonDegenerate)
        => \A i \in 0..((Len(arg) \div 3) - 1) :
              LatticeVector(box_matrix, Difference(PositionAt(ret, i), PositionAt(arg, i)))

(***************************************************************************)
(* C5.  On the orthorhombic path every component of an image lies in the   *)
(* half-open interval -L/2 <= c < L/2 of its axis.  Violated: round sends  *)
(* -1/2 to -1, so -L/2 is imaged to +L/2.                                  *)
(***************************************************************************)
C5_ImageInHalfOpenCell ==
    (op = "image" /\ Constructed /\ NonDegenerate /\ is_orthorhombic(box_angles))
        => \A n \in 1..Len(ret) :
              LET L == box_lengths[((n - 1) % 3) + 1]
              IN  /\ Le(Neg(Div(L, I(2))), ret[n])
                  /\ Lt(ret[n], Div(L, I(2)))

(***************************************************************************)
(* C6.  Idempotence: the image of an image is that image.  Violated on     *)
(* both paths.                                                             *)
(***************************************************************************)
C6_ImageIdempotent ==
    (op = "image" /\ Constructed /\ NonDegenerate) => image(Self, ret) = ret

(***************************************************************************)
(* C7.  For a cell with alpha = beta = gamma = 90 the per-axis fast path   *)
(* and the general matrix path give the same image.  Violated: the general *)
(* path scales by L where the fast path divides by L.                      *)
(***************************************************************************)
C7_PathsAgreeOnOrthorhombic ==
    (op = "image" /\ Constructed /\ NonDegenerate /\ is_orthorhombic(box_angles))
        => \A i \in 0..((Len(arg) \div 3) - 1), j \in 0..2 :
              image_general(Self, arg, i, j) = image_orthorhombic(Self, arg, i, j)

\* image has been called with (12, -6, 5) on the cell (10, 10, 10, 90, 90, 90)
C8_Scenario ==
    /\ op = "image"
    /\ Self = Cell(I(10), I(10), I(10), Deg90, Deg90, Deg90)
    /\ arg = <<I(12), I(-6), I(5)>>

(***************************************************************************)
(* C8.  The cell (10, 10, 10, 90, 90, 90) images (12, -6, 5) to (2, 4, 5). *)
(* Violated: 5 / 10 is a halfway case, round takes it to 1 and the third   *)
(* component is 5 - 10 = -5.                                               *)
(***************************************************************************)
C8_ImageOfScenario == C8_Scenario => ret = <<I(2), I(4), I(5)>>

\* C8 as amended: the cell (10, 10, 10, 90, 90, 90) images (12, -6, 5) to
\* (2, 4, -5)
C8_ImageOfScenarioAmended == C8_Scenario => ret = <<I(2), I(4), I(-5)>>

\* the scenario of C8 has been run and its third component wrapped to -5
C8_Witness == C8_Scenario /\ ret[3] = I(-5)

(***************************************************************************)
(* C9.  For a cell that is_vacuum() classifies as vacuum, image returns    *)
(* its input.  Violated: image does not consult is_vacuum.                 *)
(***************************************************************************)
C9_VacuumImageIsIdentity ==
    (op = "image" /\ Constructed /\ is_vacuum(box_matrix)) => ret = arg

(***************************************************************************)
(* C10.  Two cells that are both vacuum are close, for every rtol and      *)
(* atol and whatever their lengths and angles are.                         *)
(***************************************************************************)
C10_VacuumCellsAreClose ==
    (op = "isclose" /\ is_vacuum(box_matrix) /\ is_vacuum(arg[1].box_matrix))
        => ret = TRUE

\* two vacuum cells of different lengths have been compared with zero
\* tolerances
C10_Witness ==
    /\ op = "isclose"
    /\ is_vacuum(box_matrix)
    /\ is_vacuum(arg[1].box_matrix)
    /\ box_lengths # arg[1].box_lengths
    /\ arg[2] = I(0)
    /\ arg[3] = I(0)
    /\ ret = TRUE

\* |a - b| <= max(rtol * max(|a|, |b|), atol), an inequality between numbers:
\* it holds of no pair with an undefined member
WithinTolerance(a, b, rtol, atol) ==
    /\ ~IsNaN(a)
    /\ ~IsNaN(b)
    /\ Le(fabs(Sub(a, b)), fmax(Mul(rtol, fmax(fabs(a), fabs(b))), atol))

BothVacuum(c, other) == is_vacuum(c.box_matrix) /\ is_vacuum(other.box_matrix)

(***************************************************************************)
(* C11.  For two cells that are not both vacuum, isclose(other, rtol,      *)
(* atol) is true exactly when each of the three lengths and three angles   *)
(* is within the tolerance of its counterpart; no matrix entry takes part. *)
(* Violated: isclose returns false only when fabs(a - b) > fmax(...), and  *)
(* no comparison with NaN is true, so an undefined angle is close to any   *)
(* angle.                                                                  *)
(***************************************************************************)
C11_IscloseIsComponentwise ==
    (op = "isclose" /\ ~BothVacuum(Self, arg[1]))
        => ret = (\A i \in 1..3 :
                    /\ WithinTolerance(box_lengths[i], arg[1].box_lengths[i], arg[2], arg[3])
                    /\ WithinTolerance(box_angles[i], arg[1].box_angles[i], arg[2], arg[3]))

(***************************************************************************)
(* C12.  a == b is a comparison without tolerance: it holds only if the    *)
(* lengths and the angles of the two cells are equal.  Violated: __eq__ is *)
(* a.isclose(b) with the default tolerances, so two vacuum cells are equal *)
(* whatever their lengths.                                                 *)
(***************************************************************************)
C12_EqIsExact ==
    (op = "__eq__" /\ ret = TRUE)
        => \A i \in 1..3 :
              /\ Eq(box_lengths[i], arg.box_lengths[i])
              /\ Eq(box_angles[i], arg.box_angles[i])

\* the determinant of a 2 x 2 matrix
Det2(a, b, c, d) == Sub(Mul(a, d), Mul(b, c))

\* the determinant of the 3 x 3 matrix m, expanded along its first row
Determinant(m) ==
    Add(Sub(Mul(At(m, 0, 0), Det2(At(m, 1, 1), At(m, 1, 2), At(m, 2, 1), At(m, 2, 2))),
            Mul(At(m, 0, 1), Det2(At(m, 1, 0), At(m, 1, 2), At(m, 2, 0), At(m, 2, 2)))),
        Mul(At(m, 0, 2), Det2(At(m, 1, 0), At(m, 1, 1), At(m, 2, 0), At(m, 2, 1))))

(***************************************************************************)
(* C13.  volume() is the determinant of the stored matrix, whatever the    *)
(* matrix, one installed by init_from_box_matrix that is not upper         *)
(* triangular included; for an orthorhombic cell as constructed from the   *)
(* lengths (a, b, c) it is a * b * c, 24 for (2, 3, 4).                    *)
(***************************************************************************)
C13_VolumeIsDeterminant ==
    op = "volume"
        => /\ ret = Determinant(box_matrix)
           /\ (Constructed /\ is_orthorhombic(box_angles))
                  => ret = Mul3(box_lengths[1], box_lengths[2], box_lengths[3])
           /\ (Constructed /\ box_lengths = <<I(2), I(3), I(4)>> /\ is_orthorhombic(box_angles))
                  => ret = I(24)

\* volume() of a cell whose matrix has an entry below the diagonal and a
\* determinant that the diagonal alone does not give
C13_Witness ==
    /\ op = "volume"
    /\ At(box_matrix, 1, 0) # I(0)
    /\ IsFinite(ret)
    /\ ret # volume_of_diagonal(box_matrix)

\* row r of the matrix m times the column vector v
RowTimes(m, r, v) ==
    Add(Add(Mul(At(m, r, 0), v[1]), Mul(At(m, r, 1), v[2])), Mul(At(m, r, 2), v[3]))

\* the eight corners M * v, v = (s_i, s_j, s_k) at index 4 * i + 2 * j + k,
\* three numbers to the corner
CornersInCounterOrder(m) ==
    [ n \in 1..24 |->
        LET idx == (n - 1) \div 3
            r == (n - 1) % 3
            i == idx \div 4
            j == (idx \div 2) % 2
            k == idx % 2
        IN  RowTimes(m, r, <<values[i + 1], values[j + 1], values[k + 1]>>) ]

(***************************************************************************)
(* C14.  bounding_edges returns the 8 corners of the box in binary-counter *)
(* order, corner 4i + 2j + k being M * (s_i, s_j, s_k) with s = -0.5, 0.5; *)
(* for the unit cube these are the points of {-0.5, 0.5}^3 in that order.  *)
(* Violated: the single-precision bounding_edges takes i * 12 + j * 6 + k  *)
(* for the index of the corner and multiplies it by 3 once more.           *)
(***************************************************************************)
C14_BoundingEdgesInCounterOrder ==
    op = "bounding_edges"
        => /\ ret # Aborted
           /\ ret = CornersInCounterOrder(box_matrix)

\* lengths and angles that are not those of a box: a length that is not
\* positive, an angle outside (0, 180) degrees, gamma with a sine of 0
InvalidGeometry(lengths, angles) ==
    \/ \E k \in 1..3 : ~Gt(lengths[k], I(0))
    \/ \E k \in 1..3 : ~(Gt(angles[k], I(0)) /\ Lt(angles[k], I(180)))
    \/ SinDeg(angles[3]) = I(0)

(***************************************************************************)
(* C15.  Constructing a cell with invalid geometry, or making the geometry *)
(* invalid through a setter, signals a domain error to the caller.         *)
(* Violated: the constructor and the setters store what they are given and *)
(* return; Cell(1, 1, 1, 90, 90, 0) is a cell whose matrix holds NaN.      *)
(***************************************************************************)
C15_InvalidGeometryIsAnError ==
    ( /\ op \in { "Cell", "set_x", "set_y", "set_z", "set_alpha", "set_beta",
                  "set_gamma" }
      /\ InvalidGeometry(box_lengths, box_angles) )
        => ret # None

(***************************************************************************)
(* C16.  init_from_box_matrix on a matrix with a column of length zero     *)
(* fails, or its undefined result is surfaced as an error: it does not     *)
(* return normally with NaN angles in the cell.  Violated: acos(0 / 0) is  *)
(* stored and *this returned; through the binding every well-shaped call   *)
(* ends so, the matrix handed on being zero (C2).                          *)
(***************************************************************************)
C16_ZeroColumnIsAnError ==
    ( /\ op \in {"init_from_box_matrix", "py_init_from_box_matrix"}
      /\ ret = None
      /\ \E j \in 0..2 : column_length(box_matrix, j) = I(0) )
        => \A k \in 1..3 : ~IsNaN(box_angles[k])

\* an array that is not 2-D of shape 3 x 3
NotAMatrix(a) == a.ndim # 2 \/ a.shape # <<3, 3>>

\* an array that is not 1-D of 3 elements
NotAVector(a) == a.ndim # 1 \/ a.shape # <<3>>

(***************************************************************************)
(* C17.  init_from_box_matrix and the box_matrix setter given an array     *)
(* that is not 2-D 3 x 3, and the box_lengths and box_angles setters given *)
(* an array that is not 1-D of 3 elements, raise an error and leave the    *)
(* lengths, the angles and the matrix of the cell as they were.            *)
(***************************************************************************)
C17_ShapeErrorLeavesCell ==
    [][ ( \/ /\ op' \in {"py_init_from_box_matrix", "py_set_box_matrix"}
             /\ NotAMatrix(arg')
          \/ /\ op' \in {"py_set_box_lengths", "py_set_box_angles"}
             /\ NotAVector(arg') )
        => /\ ret' \in ErrorMessages
           /\ UNCHANGED <<box_lengths, box_angles, box_matrix>> ]_vars

\* a 2-D array that is not 3 x 3 has been refused by init_from_box_matrix
C17_Witness ==
    /\ op = "py_init_from_box_matrix"
    /\ arg.ndim = 2
    /\ ret = "box_matrix must be a 3x3 array"

(***************************************************************************)
(* C18.  After a well-shaped array V has been assigned to the box_matrix,  *)
(* box_lengths or box_angles property, reading that property returns V.    *)
(* Violated: each setter hands a value-initialised vector of the right     *)
(* size to the cell and copies no element of V into it, so zeros are read  *)
(* back.                                                                   *)
(***************************************************************************)
C18_BulkSetGetRoundTrip ==
    [][ /\ (op = "py_set_box_matrix" /\ ret = None /\ op' = "py_get_box_matrix")
            => ret' = arg
        /\ (op = "py_set_box_lengths" /\ ret = None /\ op' = "py_get_box_lengths")
            => ret' = arg
        /\ (op = "py_set_box_angles" /\ ret = None /\ op' = "py_get_box_angles")
            => ret' = arg ]_vars

\* the lengths of the binding's default cell
SentinelLengths == <<DefaultLength, DefaultLength, DefaultLength>>

(***************************************************************************)
(* C19.  Once the lengths of a cell have been set to the sentinel value    *)
(* through set_x, set_y, set_z or the box_lengths property, the next       *)
(* is_vacuum() returns true.  Violated: is_vacuum reads the matrix, which  *)
(* the length setters do not touch.                                        *)
(***************************************************************************)
C19_SentinelLengthsAreVacuum ==
    [][ /\ ( /\ op \in {"set_x", "set_y", "set_z"}
             /\ box_lengths = SentinelLengths
             /\ op' = "is_vacuum" )
            => ret' = TRUE
        /\ ( /\ op = "py_set_box_lengths"
             /\ ret = None
             /\ arg.data = SentinelLengths
             /\ op' = "is_vacuum" )
            => ret' = TRUE ]_vars

(***************************************************************************)
(* C20.  image is a pure function of the cell and the batch: the call      *)
(* leaves lengths, angles and matrix as they are, returns as many          *)
(* positions as it is given, and position n of the result is the image of  *)
(* position n alone.  Every batch and each of its parts being imaged, the  *)
(* image of two batches put end to end is then their images put end to     *)
(* end.                                                                    *)
(***************************************************************************)
C20_ImageIsPure ==
    /\ [][op' = "image" => UNCHANGED <<box_lengths, box_angles, box_matrix>>]_vars
    /\ [](op = "image"
            => /\ Len(ret) = Len(arg)
               /\ \A n \in 0..((Len(arg) \div 3) - 1) :
                     PositionAt(ret, n) = image(Self, PositionAt(arg, n)))

\* a batch of two different positions has been imaged and both were moved
C20_Witness ==
    /\ op = "image"
    /\ Len(arg) = 6
    /\ PositionAt(arg, 0) # PositionAt(arg, 1)
    /\ PositionAt(ret, 0) # PositionAt(arg, 0)
    /\ PositionAt(ret, 1) # PositionAt(arg, 1)
    /\ PositionAt(ret, 0) # PositionAt(ret, 1)

\* the three stored angles are exactly 90
AllNinety == \A k \in 1..3 : box_angles[k] = I(90)

\* the batch pos imaged by the per-axis formula / by the matrix formula
FastPath(pos) ==
    [ n \in 1..Len(pos) |-> image_orthorhombic(Self, pos, (n - 1) \div 3, (n - 1) % 3) ]

GeneralPath(pos) ==
    [ n \in 1..Len(pos) |-> image_general(Self, pos, (n - 1) \div 3, (n - 1) % 3) ]

(***************************************************************************)
(* C21.  image takes the per-axis path if and only if the three angles     *)
(* stored at the time of the call are exactly 90, and the matrix path      *)
(* otherwise; the matrix has no say in the choice.                         *)
(***************************************************************************)
C21_PathFollowsStoredAngles ==
    (op = "image" /\ Len(arg) % 3 = 0)
        => ret = IF AllNinety THEN FastPath(arg) ELSE GeneralPath(arg)

\* image on a cell whose angles a setter has made 90 while its matrix is
\* not diagonal: the per-axis path was taken and the matrix path differs
C21_Witness ==
    /\ op = "image"
    /\ nmut > 0
    /\ AllNinety
    /\ \E r \in 0..2, k \in 0..2 : r # k /\ At(box_matrix, r, k) # I(0)
    /\ FiniteMatrix(box_matrix)
    /\ Len(arg) = 3
    /\ ret = FastPath(arg)
    /\ ret # GeneralPath(arg)

\* the cell is Cell() of the binding: default lengths, angles 90, untouched
DefaultCell == Constructed /\ Self = Cell(DefaultLength, DefaultLength, DefaultLength, Deg90, Deg90, Deg90)

(***************************************************************************)
(* C22.  The cell constructed through the binding without arguments is     *)
(* vacuum: its volume, (0.99 * cbrt(FLT_MAX))^3, exceeds the threshold     *)
(* 0.99^4 * FLT_MAX and is_vacuum() returns true.                          *)
(***************************************************************************)
C22_DefaultCellIsVacuum ==
    (op = "is_vacuum" /\ DefaultCell)
        => /\ ret = TRUE
           /\ Gt(volume(box_matrix), VacuumThreshold)
           /\ volume(box_matrix) = Mul3(DefaultLength, DefaultLength, DefaultLength)

\* is_vacuum() has been called on the default cell
C22_Witness == op = "is_vacuum" /\ DefaultCell /\ ret = TRUE

(***************************************************************************)
(* Vocabulary of the tokenizer's properties: the whitespace-separated      *)
(* tokens of a line, and the tokens that are numerals as a whole.          *)
(***************************************************************************)
RECURSIVE TokensFrom(_, _)
TokensFrom(s, p) ==
    IF skip_ws(s, p) > Len(s) THEN <<>>
    ELSE <<read_string(s, p).value>> \o TokensFrom(s, read_string(s, p).next)

Tokens == [s \in Lines |-> TokensFrom(s, 1)]

IsNumeral(t) == read_float(t, 1).ok /\ read_float(t, 1).next = Len(t) + 1

NumberOf(t) == read_float(t, 1).value

\* a label followed by three numbers
WellFormed(s) ==
    /\ Len(Tokens[s]) >= 4
    /\ \A c \in 2..4 : IsNumeral(Tokens[s][c])

WithAtoms == {"py_process_lines_with_atoms", "py_process_lines_with_atoms_caught",
              "pyx_process_lines_with_atoms"}

Tokenized == op \in WithAtoms /\ ret.kind = "ok"

\* C23: on success process_lines_with_atoms returns n_atoms labels and
\* n_atoms rows in input order; label i is the first token of line i and row
\* i the next three tokens of line i parsed as numbers.
C23_LabelsAndRowsAreTheTokens ==
    Tokenized =>
        /\ Len(ret.atoms) = arg[2]
        /\ Len(ret.xyz) = arg[2]
        /\ \A i \in 1..arg[2] :
              /\ i <= Len(arg[1])
              /\ WellFormed(arg[1][i])
              /\ ret.atoms[i] = Tokens[arg[1][i]][1]
              /\ \A c \in 1..3 : ret.xyz[i][c] = NumberOf(Tokens[arg[1][i]][c + 1])

Raised == {"RuntimeError", "ValueError"}

\* the index, counted from 0, of the first line of input that is not well formed
FirstFailing(input, n) ==
    (CHOOSE i \in 1..n :
        /\ ~WellFormed(input[i])
        /\ \A j \in 1..(i - 1) : WellFormed(input[j])) - 1

NamesIndex(message, i) ==
    \/ message = "Failed to parse line " \o ToString(i)
    \/ message = "Could not parse line " \o ToString(i)

\* C24: when one of the first n_atoms lines is not a label followed by three
\* numbers, process_lines_with_atoms raises an error that names the smallest
\* failing index, and returns nothing.
C24_ErrorNamesFirstFailingLine ==
    (/\ op \in WithAtoms
     /\ arg[2] \in 0..Len(arg[1])
     /\ \E i \in 1..arg[2] : ~WellFormed(arg[1][i]))
        => /\ ret.kind \in Raised
           /\ ret.atoms = <<>> /\ ret.xyz = <<>>
           /\ NamesIndex(ret.message, FirstFailing(arg[1], arg[2]))

Setters == {"set_x", "set_y", "set_z", "set_alpha", "set_beta", "set_gamma"}

\* the field a setter names: 1..3 the lengths, 4..6 the angles
FieldOf(name) ==
    CASE name = "set_x" -> 1 [] name = "set_y" -> 2 [] name = "set_z" -> 3
      [] name = "set_alpha" -> 4 [] name = "set_beta" -> 5 [] name = "set_gamma" -> 6

(***************************************************************************)
(* C25.  Frame of the per-field setters: a call of set_x .. set_gamma      *)
(* stores its argument in the one field it names; the other five fields    *)
(* and the nine matrix entries stay, and with them what volume(),          *)
(* is_vacuum() and bounding_edges() compute.                               *)
(***************************************************************************)
C25_SettersChangeOneField ==
    [][ (op' \in Setters /\ nmut' = nmut + 1) =>
            /\ \A k \in 1..3 :
                  /\ box_lengths'[k] = IF FieldOf(op') = k THEN arg' ELSE box_lengths[k]
                  /\ box_angles'[k] = IF FieldOf(op') = k + 3 THEN arg' ELSE box_angles[k]
            /\ box_matrix' = box_matrix
            /\ volume(box_matrix') = volume(box_matrix)
            /\ is_vacuum(box_matrix') = is_vacuum(box_matrix)
            /\ bounding_edges(box_matrix') = bounding_edges(box_matrix) ]_vars

\* set_x has stored a length that the matrix does not hold
C25_Witness ==
    /\ op = "set_x"
    /\ box_lengths[1] = arg
    /\ At(box_matrix, 0, 0) # arg
    /\ FiniteMatrix(box_matrix)

\* no length and no angle of c is NaN
Defined(c) == \A i \in 1..3 : ~IsNaN(c.box_lengths[i]) /\ ~IsNaN(c.box_angles[i])

(***************************************************************************)
(* C26.  isclose is symmetric: a.isclose(b, rtol, atol) is what            *)
(* b.isclose(a, rtol, atol) is, for all cells and all rtol, atol >= 0; and *)
(* it is reflexive: a.isclose(a), with any tolerance and with the default  *)
(* ones of a == a, is true for a cell with defined lengths and angles.     *)
(***************************************************************************)
C26_IscloseIsSymmetricAndReflexive ==
    /\ op = "isclose" =>
          /\ ret = isclose(arg[1], Self, arg[2], arg[3])
          /\ (arg[1] = Self /\ Defined(Self)) => ret = TRUE
    /\ (op = "__eq__" /\ arg = Self /\ Defined(Self)) => ret = TRUE

\* a vacuum cell compared with a cell that is not vacuum
C26_Witness ==
    /\ op = "isclose"
    /\ is_vacuum(box_matrix)
    /\ ~is_vacuum(arg[1].box_matrix)
    /\ Defined(Self) /\ Defined(arg[1])
    /\ ret = FALSE

(***************************************************************************)
(* C27.  A cell with an undefined (NaN) length or angle is never reported  *)
(* close or equal to a cell whose lengths and angles are defined: isclose  *)
(* and __eq__ return false for such a pair, in either order.  Violated: a  *)
(* comparison with NaN is false, so an undefined field differs from        *)
(* nothing.                                                                *)
(***************************************************************************)
C27_UndefinedCellIsNeverClose ==
    /\ (op = "isclose" /\ Defined(Self) # Defined(arg[1])) => ret = FALSE
    /\ (op = "__eq__" /\ Defined(Self) # Defined(arg)) => ret = FALSE

(***************************************************************************)
(* C30.  In the flat-array bounding_edges every write index idx * 3 + col, *)
(* over i, j, k in {0, 1} and col in 0..2, lies within the 24 elements of  *)
(* edges, and each of the 24 elements is written exactly once.  Violated:  *)
(* idx = i * (4 * 3) + j * (2 * 3) + k reaches 19, so twelve writes fall   *)
(* at 36..59 and the elements 6..17 are never written.                     *)
(***************************************************************************)
C30_EdgeWritesCoverTheArray ==
    op = "bounding_edges" =>
        /\ edge_writes_out_of_bounds(box_matrix) = {}
        /\ \A n \in 0..(EdgesSize - 1) :
              Cardinality({ <<i, j, k, col>> \in (0..1) \X (0..1) \X (0..1) \X (0..2) :
                                (edge_idx(i, j, k) * 3) + col = n }) = 1

CppBindings == {"py_process_lines_with_atoms", "py_process_lines_with_atoms_caught"}

(***************************************************************************)
(* C28.  The C++ process_lines_with_atoms never reads a line index outside *)
(* the input: called with n_atoms greater than the number of lines, or     *)
(* negative, it reports an error and evaluates no input[i] with            *)
(* i >= len(input).  Violated: the loop runs i up to n_atoms - 1 and       *)
(* input[i] is not checked.                                                *)
(***************************************************************************)
C28_NoReadOutsideInput ==
    (op \in CppBindings /\ (arg[2] > Len(arg[1]) \/ arg[2] < 0))
        => /\ ret.kind \in Raised
           /\ ret.reads \subseteq 0..(Len(arg[1]) - 1)

Cython == {"pyx_process_lines_with_atoms", "mytest_process_lines"}

(***************************************************************************)
(* C29.  The Cython tokenizer reads the label into a buffer of 5 bytes:    *)
(* for every line, also one whose label has 5 or more characters, at most  *)
(* 5 bytes (label and terminator) are stored into it, and the label        *)
(* returned is the whole first token of the line.  Violated: %s has no     *)
(* field width, and stores the whole token and a terminator.               *)
(***************************************************************************)
C29_LabelFitsItsBuffer ==
    op \in Cython =>
        /\ ret.written <= AtomBufferSize
        /\ ret.kind # "Aborted"
        /\ ret.kind = "ok" =>
              \A i \in 1..Len(ret.atoms) : ret.atoms[i] = Tokens[arg[1][i]][1]

====
